---- MODULE Spec2Model ----
(***************************************************************************)
(* Secret Santa assignment core: RandomDerangementStrategy.generate with   *)
(* its retry loop and greedy per-attempt construction, and                 *)
(* AssignmentEngine.create_assignments, which turns the prior records into *)
(* the forbidden map (a Python dict keyed by Employee) and calls generate. *)
(*                                                                         *)
(* Strings are sequences of one-character strings so that str.lower() is   *)
(* computed and not assumed. A Python Optional is a sequence of length 0   *)
(* (None) or 1. A dict is the sequence of its (key, value) entries in      *)
(* insertion order; a set of Employee is a set with membership by __eq__.  *)
(***************************************************************************)
EXTENDS Integers, Sequences, FiniteSets, TLC

\* ----------------------------------------------------------------- bounds
MaxRoster == 2
MaxPrior == 2
MaxAttempts == 2
MaxMinEmployees == 3
MaxObjects == 2
MaxConfigCalls == 3

\* -------------------------------------------------------- program constants
DefaultMinEmployees == 2
DefaultMaxAttempts == 1000

\* ------------------------------------------------------------- str.lower()
LowerChar(c) ==
    CASE c = "A" -> "a"
      [] c = "B" -> "b"
      [] c = "C" -> "c"
      [] c = "D" -> "d"
      [] c = "L" -> "l"
      [] c = "O" -> "o"
      [] c = "H" -> "h"
      [] c = "I" -> "i"
      [] c = "X" -> "x"
      [] OTHER -> c

Lower(s) == [i \in DOMAIN s |-> LowerChar(s[i])]

\* ------------------------------------------------------------------ models
Employee(n, e) == [name |-> n, email |-> e]

\* Employee.__hash__: hash of the pair of lower-cased fields; the pair stands
\* for its hash value.
EmpHashCaseSensitive(e) == << e.name, e.email >>

EmpHash(e) == << Lower(e.name), Lower(e.email) >>

EmpEqCaseSensitive(a, b) == a.name = b.name /\ a.email = b.email

EmpEq(a, b) == Lower(a.name) = Lower(b.name) /\ Lower(a.email) = Lower(b.email)

\* Assignment.__post_init__: TRUE when construction raises ValueError.
AssignmentRejected(giver, child) == EmpEq(giver, child)

Assignment(giver, child) == [employee |-> giver, secret_child |-> child]

\* -------------------------------------------------------------- participants
Alice == Employee(<<"A", "l">>, <<"a", "@", "x", ".", "c", "o">>)
ALICE == Employee(<<"A", "L">>, <<"A", "@", "X", ".", "C", "O">>)
Bob == Employee(<<"B", "o">>, <<"b", "@", "x", ".", "c", "o">>)
Charlie == Employee(<<"C", "h">>, <<"c", "@", "x", ".", "c", "o">>)
Diana == Employee(<<"D", "i">>, <<"d", "@", "x", ".", "c", "o">>)

Staff == {Alice, ALICE, Bob}

SeqsUpTo(S, n) == UNION {[1..k -> S] : k \in 0..n}

\* Prior records are constructed Assignments: __post_init__ accepted them.
PriorRecords ==
    {Assignment(Alice, Bob), Assignment(ALICE, Charlie), Assignment(Bob, Alice)}

Configs ==
    {c \in [min_employees : 0..MaxMinEmployees,
            max_assignment_attempts : -1..MaxAttempts] :
        c.min_employees = DefaultMinEmployees \/ c.max_assignment_attempts = 1}

ScenarioRoster == <<Alice, Bob, Charlie, Diana>>

ScenarioPrior ==
    << Assignment(Alice, Bob), Assignment(Bob, Charlie),
       Assignment(Charlie, Diana), Assignment(Diana, Alice) >>

TrioRoster == <<Alice, Bob, Charlie>>

\* The rosters a caller passes: every list over Staff within the bound, three
\* distinct participants, and the documented four-participant round.
Rosters == SeqsUpTo(Staff, MaxRoster) \cup {TrioRoster, ScenarioRoster}

\* The prior records a caller passes: every list of records within the bound
\* (repeated and case-variant givers included) and the documented prior round.
PriorLists == SeqsUpTo(PriorRecords, MaxPrior) \cup {ScenarioPrior}

\* ------------------------------------------------- Python set / dict / range
\* A hashed lookup finds a stored key when the hashes agree and __eq__ holds.
KeyMatch(stored, k) == EmpHash(stored) = EmpHash(k) /\ EmpEq(stored, k)

InSet(e, s) == \E u \in s : KeyMatch(u, e)

SetAdd(s, e) == IF InSet(e, s) THEN s ELSE s \cup {e}

DictHas(d, k) == \E i \in DOMAIN d : KeyMatch(d[i][1], k)

DictIndex(d, k) == CHOOSE i \in DOMAIN d : KeyMatch(d[i][1], k)

\* previous_assignments.get(giver); the variant returns the first entry's value
\* whatever its key.
DictGetFirstEntry(d, k) == IF d = <<>> THEN <<>> ELSE <<d[1][2]>>

DictGet(d, k) == IF DictHas(d, k) THEN <<d[DictIndex(d, k)][2]>> ELSE <<>>

DictSetKeepFirst(d, k, v) == IF DictHas(d, k) THEN d ELSE Append(d, <<k, v>>)

DictSet(d, k, v) ==
    IF DictHas(d, k)
    THEN [d EXCEPT ![DictIndex(d, k)] = <<d[DictIndex(d, k)][1], v>>]
    ELSE Append(d, <<k, v>>)

RangeLenOneShort(n) == IF n > 1 THEN n - 1 ELSE 0

RangeLenOneMore(n) == IF n + 1 > 0 THEN n + 1 ELSE 0

RangeLenAbs(n) == IF n < 0 THEN 0 - n ELSE n

RangeLen(n) == IF n > 0 THEN n ELSE 0

\* random.shuffle on a copy: every ordering of the same elements. (Without the
\* shuffle the pool would be the roster in its own order.)
ShufflesNone(s) == {s}

Shuffles(s) ==
    LET n == Len(s)
        Bij == {p \in [1..n -> 1..n] : \A i, j \in 1..n : p[i] = p[j] => i = j}
    IN  {[i \in 1..n |-> s[p[i]]] : p \in Bij}

\* ------------------------------------------------------- exception classes
Catches(handler, exc) ==
    \/ handler = exc
    \/ handler = "AssignmentError"
         /\ exc \in {"InsufficientEmployeesError", "NoValidAssignmentError"}
    \/ handler = "SecretSantaException"
         /\ exc \in {"AssignmentError", "InsufficientEmployeesError",
                     "NoValidAssignmentError", "ValidationError", "FileOperationError"}
    \/ handler = "Exception"

\* generate: the class named by "except ...:" around _attempt_assignment.
RetryHandlerNarrow == "NoValidAssignmentError"

RetryHandler == "AssignmentError"

\* generate: len(employees) < self.config.min_employees
TooFewOffByOne(n, min_employees) == n < min_employees - 1

TooFew(n, min_employees) == n < min_employees

\* ------------------------------------------------------- _find_valid_child
NotPreviousIgnored(child, previous_child) == TRUE

NotPrevious(child, previous_child) ==
    previous_child = <<>> \/ ~EmpEq(child, previous_child[1])

EligibleIgnoringUsed(child, giver, used, previous_child) ==
    /\ ~EmpEq(child, giver)
    /\ NotPrevious(child, previous_child)

EligibleAllowingSelf(child, giver, used, previous_child) ==
    /\ ~InSet(child, used)
    /\ NotPrevious(child, previous_child)

Eligible(child, giver, used, previous_child) ==
    /\ ~InSet(child, used)
    /\ ~EmpEq(child, giver)
    /\ NotPrevious(child, previous_child)

\* Variants of the scan: the last eligible element; the head of the pool when
\* nothing is eligible.
FindValidChildLast(giver, available, used, previous_child) ==
    LET ok == {i \in DOMAIN available : Eligible(available[i], giver, used, previous_child)}
    IN  IF ok = {} THEN <<>>
        ELSE <<available[CHOOSE i \in ok : \A j \in ok : i >= j]>>

FindValidChildFallback(giver, available, used, previous_child) ==
    LET ok == {i \in DOMAIN available : Eligible(available[i], giver, used, previous_child)}
    IN  IF ok = {} THEN (IF available = <<>> THEN <<>> ELSE <<available[1]>>)
        ELSE <<available[CHOOSE i \in ok : \A j \in ok : i <= j]>>

FindValidChild(giver, available, used, previous_child) ==
    LET ok == {i \in DOMAIN available : Eligible(available[i], giver, used, previous_child)}
    IN  IF ok = {} THEN <<>>
        ELSE <<available[CHOOSE i \in ok : \A j \in ok : i <= j]>>

\* ------------------------------------------- create_assignments: the dict
RECURSIVE BuildMapFrom(_, _)
BuildMapFrom(records, d) ==
    IF records = <<>> THEN d
    ELSE BuildMapFrom(Tail(records),
                      DictSet(d, Head(records).employee, Head(records).secret_child))

BuildMap(records) == BuildMapFrom(records, <<>>)

\* ------------------------------- _attempt_assignment as a function of its pool
\* The loop "for giver in employees" from the k-th giver on, with the pairs
\* chosen and the recipients used so far: the exception raised (Optional) and
\* the list returned (Optional).
RECURSIVE AttemptFrom(_, _, _, _, _, _)
AttemptFrom(roster, forbidden, pool, k, chosen, used) ==
    IF k > Len(roster)
    THEN [raised |-> <<>>, value |-> << chosen >>]
    ELSE LET giver == roster[k]
             child == FindValidChild(giver, pool, used, DictGet(forbidden, giver))
         IN  IF child = <<>>
             THEN [raised |-> << "AssignmentError" >>, value |-> <<>>]
             ELSE IF AssignmentRejected(giver, child[1])
             THEN [raised |-> << "ValueError" >>, value |-> <<>>]
             ELSE AttemptFrom(roster, forbidden, pool, k + 1,
                              Append(chosen, Assignment(giver, child[1])),
                              SetAdd(used, child[1]))

AttemptAssignment(roster, forbidden, pool) ==
    AttemptFrom(roster, forbidden, pool, 1, <<>>, {})

\* -------------------------------------------------------------------- state
VARIABLES
    config,                 \* Config fields read by the strategy
    max_attempts,           \* RandomDerangementStrategy.max_attempts
    employees,              \* the caller's roster
    previous_assignments,   \* the caller's prior records
    previous_map,           \* the dict built by create_assignments
    pc,                     \* position in create_assignments / generate
    attempt,                \* iterations of the retry loop started so far
    available,              \* _attempt_assignment: the shuffled pool
    assignments,            \* _attempt_assignment: pairs chosen so far
    used_children,          \* _attempt_assignment: recipients taken so far
    gi,                     \* _attempt_assignment: index of the next giver
    visits,                 \* how often each giver was visited in this attempt
    scans,                  \* how often the pool was scanned for each giver
    exc,                    \* exception in flight inside generate (Optional)
    caught,                 \* AssignmentErrors swallowed by the retry loop
    raised,                 \* exception that left generate (Optional)
    result,                 \* the list generate returned (Optional)
    generate_calls,         \* calls of strategy.generate made by create_assignments
    ca_result,              \* the list create_assignments returned (Optional)
    ca_raised,              \* exception that left create_assignments (Optional)
    app_pc,                 \* SecretSantaApplication.run: the step it is at
    steps,                  \* run: the collaborator calls made so far, in order
    employees_file,         \* the roster file as read_employees found it
    previous_file,          \* the prior file as read_previous_assignments found it
    output_file,            \* the output file: what write_assignments wrote (Optional)
    run_result,             \* the value run returned (Optional)
    run_raised,             \* exception that left run (Optional)
    lib,                    \* the last direct call of a library function, with its outcome
    objs,                   \* the Assignment objects alive, in creation order
    cfg_instance,           \* Config._instance (Optional: index into cfg_heap)
    cfg_initialized,        \* Config._initialized
    cfg_heap,               \* every Config object ever allocated, with its fields
    cfg_refs,               \* the references returned by Config() calls, in order
    cfg_resets              \* Config.reset() calls so far

callerVars == << generate_calls, ca_result, ca_raised >>

appVars == << app_pc, steps, employees_file, previous_file, output_file,
              run_result, run_raised >>

libVars == << lib, objs >>

cfgVars == << cfg_instance, cfg_initialized, cfg_heap, cfg_refs, cfg_resets >>

others == << appVars, libVars, cfgVars >>

engineVars == << config, max_attempts, employees, previous_assignments,
                 previous_map, pc, attempt, available, assignments,
                 used_children, gi, visits, scans, exc, caught, raised, result,
                 callerVars >>

vars == << config, max_attempts, employees, previous_assignments, previous_map,
           pc, attempt, available, assignments, used_children, gi, visits,
           scans, exc, caught, raised, result, callerVars, others >>

Zeroes(n) == [i \in 1..n |-> 0]

\* No application run is in progress.
AppIdle ==
    /\ app_pc = "off"
    /\ steps = <<>>
    /\ employees_file = <<>>
    /\ previous_file = <<>>
    /\ output_file = <<>>
    /\ run_result = <<>>
    /\ run_raised = <<>>

\* No library function has been called directly and no Assignment exists.
LibIdle ==
    /\ lib = <<>>
    /\ objs = <<>>

\* The Config class as loaded: no instance, not initialised.
CfgIdle ==
    /\ cfg_instance = <<>>
    /\ cfg_initialized = FALSE
    /\ cfg_heap = <<>>
    /\ cfg_refs = <<>>
    /\ cfg_resets = 0

\* After construction: Config holds its settings, the strategy has captured
\* max_assignment_attempts, and create_assignments has not been called.
EngineInit ==
    /\ config \in Configs
    /\ max_attempts = config.max_assignment_attempts
    /\ employees = <<>>
    /\ previous_assignments = <<>>
    /\ previous_map = <<>>
    /\ pc = "idle"
    /\ attempt = 0
    /\ available = <<>>
    /\ assignments = <<>>
    /\ used_children = {}
    /\ gi = 0
    /\ visits = <<>>
    /\ scans = <<>>
    /\ exc = <<>>
    /\ caught = 0
    /\ raised = <<>>
    /\ result = <<>>
    /\ generate_calls = 0
    /\ ca_result = <<>>
    /\ ca_raised = <<>>

Init == EngineInit /\ AppIdle /\ LibIdle /\ CfgIdle

\* ------------------------------------------------------------------ actions
\* AssignmentEngine.create_assignments up to the call of strategy.generate.
\* The caller passes any of the rosters with any of the prior lists.
CreateAssignments ==
    /\ pc = "idle"
    /\ employees' \in Rosters
    /\ previous_assignments' \in PriorLists
    /\ previous_map' = BuildMap(previous_assignments')
    /\ visits' = Zeroes(Len(employees'))
    /\ scans' = Zeroes(Len(employees'))
    /\ pc' = "generate"
    /\ generate_calls' = generate_calls + 1
    /\ UNCHANGED << config, max_attempts, attempt, available, assignments,
                    used_children, gi, exc, caught, raised, result,
                    ca_result, ca_raised, others >>

\* generate: the roster-size check.
GenerateCheck ==
    /\ pc = "generate"
    /\ IF TooFew(Len(employees), config.min_employees)
       THEN /\ raised' = <<"InsufficientEmployeesError">>
            /\ pc' = "done"
       ELSE /\ raised' = raised
            /\ pc' = "loop"
    /\ UNCHANGED << config, max_attempts, employees, previous_assignments,
                    previous_map, attempt, available, assignments, used_children,
                    gi, visits, scans, exc, caught, result >>
    /\ UNCHANGED << callerVars, others >>

\* generate: range(self.max_attempts) reads the field the constructor set,
\* not the Config object.
AttemptCapLive(captured, cfg) == cfg.max_assignment_attempts

AttemptCap(captured, cfg) == captured

\* _attempt_assignment: available = employees.copy(); random.shuffle(available).
\* What the caller's list holds after the shuffle: without the copy the pool
\* and the caller's list would be one object.
CallerRosterAliased(roster, shuffled) == shuffled

CallerRoster(roster, shuffled) == roster

\* _attempt_assignment: used_children: Set[Employee] = set(). The argument is
\* what the previous attempt left in its own local of that name.
NewUsedChildrenCarried(leftover) == leftover

NewUsedChildren(leftover) == {}

\* for attempt in range(self.max_attempts): one more iteration; the call of
\* _attempt_assignment copies and shuffles the roster and clears its locals.
StartAttempt ==
    /\ pc = "loop"
    /\ attempt < RangeLen(AttemptCap(max_attempts, config))
    /\ attempt' = attempt + 1
    /\ available' \in Shuffles(employees)
    /\ employees' = CallerRoster(employees, available')
    /\ assignments' = <<>>
    /\ used_children' = NewUsedChildren(used_children)
    /\ gi' = 1
    /\ visits' = Zeroes(Len(employees))
    /\ scans' = Zeroes(Len(employees))
    /\ pc' = "giver"
    /\ UNCHANGED << config, max_attempts, previous_assignments,
                    previous_map, exc, caught, raised, result >>
    /\ UNCHANGED << callerVars, others >>

\* The range is exhausted: raise NoValidAssignmentError.
Exhausted ==
    /\ pc = "loop"
    /\ ~(attempt < RangeLen(AttemptCap(max_attempts, config)))
    /\ raised' = <<"NoValidAssignmentError">>
    /\ pc' = "done"
    /\ UNCHANGED << config, max_attempts, employees, previous_assignments,
                    previous_map, attempt, available, assignments, used_children,
                    gi, visits, scans, exc, caught, result >>
    /\ UNCHANGED << callerVars, others >>

\* One iteration of "for giver in employees".
GiverStep ==
    /\ pc = "giver"
    /\ gi <= Len(employees)
    /\ LET giver == employees[gi]
           child == FindValidChild(giver, available, used_children,
                                   DictGet(previous_map, giver))
       IN  /\ visits' = [visits EXCEPT ![gi] = @ + 1]
           /\ scans' = [scans EXCEPT ![gi] = @ + 1]
           /\ IF child = <<>>
              THEN /\ exc' = <<"AssignmentError">>
                   /\ pc' = "except"
                   /\ UNCHANGED << assignments, used_children, gi >>
              ELSE IF AssignmentRejected(giver, child[1])
              THEN /\ exc' = <<"ValueError">>
                   /\ pc' = "except"
                   /\ UNCHANGED << assignments, used_children, gi >>
              ELSE /\ assignments' = Append(assignments, Assignment(giver, child[1]))
                   /\ used_children' = SetAdd(used_children, child[1])
                   /\ gi' = gi + 1
                   /\ UNCHANGED << exc, pc >>
    /\ UNCHANGED << config, max_attempts, employees, previous_assignments,
                    previous_map, attempt, available, caught, raised, result >>
    /\ UNCHANGED << callerVars, others >>

\* _attempt_assignment returns and generate returns its list.
AttemptReturn ==
    /\ pc = "giver"
    /\ gi > Len(employees)
    /\ result' = <<assignments>>
    /\ pc' = "done"
    /\ UNCHANGED << config, max_attempts, employees, previous_assignments,
                    previous_map, attempt, available, assignments, used_children,
                    gi, visits, scans, exc, caught, raised >>
    /\ UNCHANGED << callerVars, others >>

\* except AssignmentError: continue; anything else leaves generate.
Except ==
    /\ pc = "except"
    /\ IF Catches(RetryHandler, exc[1])
       THEN /\ caught' = caught + 1
            /\ pc' = "loop"
            /\ raised' = raised
       ELSE /\ caught' = caught
            /\ pc' = "done"
            /\ raised' = exc
    /\ exc' = <<>>
    /\ UNCHANGED << config, max_attempts, employees, previous_assignments,
                    previous_map, attempt, available, assignments, used_children,
                    gi, visits, scans, result >>
    /\ UNCHANGED << callerVars, others >>

\* create_assignments has no try/except: the classes it would catch.
CreateAssignmentsHandlersSwallowing == {"AssignmentError"}

CreateAssignmentsHandlers == {}

\* return self.strategy.generate(employees, previous_map): the list generate
\* returned is returned, an exception generate raised propagates unless a
\* handler of create_assignments catches it.
CreateReturn ==
    /\ pc = "done"
    /\ IF raised # <<>> /\ \E h \in CreateAssignmentsHandlers : Catches(h, raised[1])
       THEN ca_result' = << <<>> >> /\ ca_raised' = <<>>
       ELSE ca_result' = result /\ ca_raised' = raised
    /\ pc' = "returned"
    /\ UNCHANGED << config, max_attempts, employees, previous_assignments,
                    previous_map, attempt, available, assignments, used_children,
                    gi, visits, scans, exc, caught, raised, result,
                    generate_calls, others >>

Next ==
    \/ CreateAssignments
    \/ GenerateCheck
    \/ StartAttempt
    \/ Exhausted
    \/ GiverStep
    \/ AttemptReturn
    \/ Except
    \/ CreateReturn

Spec == Init /\ [][Next]_vars

\* A step is possible exactly while the call has not returned or raised.
NextEnabledWhileRunning == (pc # "returned") <=> ENABLED <<Next>>_vars

\* The interpreter keeps running the call until it returns or raises: weak
\* fairness of Next, WF_vars(Next), with ENABLED <<Next>>_vars written as the
\* state predicate it equals (NextEnabledWhileRunning).
FairSpec == Spec /\ ([]<>(pc = "returned") \/ []<><<Next>>_vars)

TypeOK ==
    /\ pc \in {"idle", "generate", "loop", "giver", "except", "done", "returned"}
    /\ attempt \in 0..RangeLen(max_attempts)
    /\ Len(result) <= 1
    /\ Len(raised) <= 1
\* ============================================== validation and CSV files
\* str.strip(): leading and trailing blanks removed.
RECURSIVE LStrip(_)
LStrip(s) == IF s # <<>> /\ Head(s) = " " THEN LStrip(Tail(s)) ELSE s

RECURSIVE RStrip(_)
RStrip(s) ==
    IF s # <<>> /\ s[Len(s)] = " " THEN RStrip(SubSeq(s, 1, Len(s) - 1)) ELSE s

Strip(s) == RStrip(LStrip(s))

\* Validator.EMAIL_REGEX: ^[a-zA-Z0-9._%+-]+@[a-zA-Z0-9.-]+\.[a-zA-Z]{2,}$
Letters ==
    {"a", "b", "c", "d", "h", "i", "l", "o", "x",
     "A", "B", "C", "D", "H", "I", "L", "O", "X"}

Digits == {"0", "1", "2", "3", "4", "5", "6", "7", "8", "9"}

LocalChars == Letters \cup Digits \cup {".", "_", "%", "+", "-"}

DomainChars == Letters \cup Digits \cup {".", "-"}

EmailRegexMatches(s) ==
    \E at \in DOMAIN s : \E dot \in DOMAIN s :
        /\ s[at] = "@"
        /\ at > 1
        /\ \A k \in 1..(at - 1) : s[k] \in LocalChars
        /\ dot > at + 1
        /\ s[dot] = "."
        /\ \A k \in (at + 1)..(dot - 1) : s[k] \in DomainChars
        /\ Len(s) - dot >= 2
        /\ \A k \in (dot + 1)..Len(s) : s[k] \in Letters

\* Validator.validate_email
ValidateEmail(email) == EmailRegexMatches(Strip(email))

\* Employee.__post_init__: TRUE when construction raises ValueError.
EmployeeRejected(n, e) == Strip(n) = <<>> \/ Strip(e) = <<>>

Error(class, message) == [class |-> class, message |-> message]

\* Validator.validate_employee: the exception raised (Optional).
ValidateEmployee(employee) ==
    IF Strip(employee.name) = <<>>
    THEN << Error("ValidationError", "Employee name cannot be empty") >>
    ELSE IF ~ValidateEmail(employee.email)
    THEN << Error("ValidationError", "Invalid email format") >>
    ELSE <<>>

\* Validator._check_duplicates: the exception raised (Optional). seen_emails
\* is a set of lower-cased strings.
CheckDuplicatesCaseSensitive(roster) ==
    IF \E i \in DOMAIN roster : \E j \in 1..(i - 1) :
            roster[j].email = roster[i].email
    THEN << Error("ValidationError", "Duplicate email found") >>
    ELSE <<>>

CheckDuplicates(roster) ==
    IF \E i \in DOMAIN roster : \E j \in 1..(i - 1) :
            Lower(roster[j].email) = Lower(roster[i].email)
    THEN << Error("ValidationError", "Duplicate email found") >>
    ELSE <<>>

\* Validator.validate_employees: the exception raised (Optional).
ValidateEmployees(roster, min_count) ==
    IF roster = <<>>
    THEN << Error("ValidationError", "Employee list cannot be empty") >>
    ELSE IF Len(roster) < min_count
    THEN << Error("ValidationError", "At least min_count roster required") >>
    ELSE IF \E i \in DOMAIN roster : ValidateEmployee(roster[i]) # <<>>
    THEN ValidateEmployee(roster[
             CHOOSE i \in DOMAIN roster :
                 /\ ValidateEmployee(roster[i]) # <<>>
                 /\ \A j \in 1..(i - 1) : ValidateEmployee(roster[j]) = <<>>])
    ELSE CheckDuplicates(roster)

\* Config.employee_fields and Config.assignment_fields
employee_fields == {"Employee_Name", "Employee_EmailID"}

assignment_fields ==
    {"Employee_Name", "Employee_EmailID", "Secret_Child_Name", "Secret_Child_EmailID"}

\* Validator.validate_csv_headers: the exception raised (Optional).
ValidateCsvHeaders(headers, required_fields) ==
    IF required_fields \ headers # {}
    THEN << Error("ValidationError", "Missing required CSV fields") >>
    ELSE <<>>

\* A CSV file on disk: absent (<<>>), or present with a flag telling whether
\* it can be opened and read, its header names and its rows.
NoFile == <<>>

File(readable, headers, rows) ==
    << [readable |-> readable, headers |-> headers, rows |-> rows] >>

\* The outcome of a call: the exception raised (Optional) and the value returned.
Outcome(raised_, value) == [raised |-> raised_, value |-> value]

\* CSVHandler.read_employees: rows are read in order; the first row whose
\* Employee cannot be constructed or validated ends the call.
EmployeeOfRow(row) == Employee(Strip(row.Employee_Name), Strip(row.Employee_EmailID))

RowError(row) ==
    IF EmployeeRejected(Strip(row.Employee_Name), Strip(row.Employee_EmailID))
    THEN << Error("ValidationError", "Error in row") >>
    ELSE ValidateEmployee(EmployeeOfRow(row))

ReadEmployees(file) ==
    IF file = NoFile
    THEN Outcome(<< Error("FileOperationError", "File not found") >>, <<>>)
    ELSE IF ~file[1].readable
    THEN Outcome(<< Error("FileOperationError", "File I/O error") >>, <<>>)
    ELSE IF file[1].headers # {} /\ ValidateCsvHeaders(file[1].headers, employee_fields) # <<>>
    THEN Outcome(ValidateCsvHeaders(file[1].headers, employee_fields), <<>>)
    ELSE LET rows == file[1].rows
         IN  IF \E i \in DOMAIN rows : RowError(rows[i]) # <<>>
             THEN Outcome(RowError(rows[CHOOSE i \in DOMAIN rows :
                                          /\ RowError(rows[i]) # <<>>
                                          /\ \A j \in 1..(i - 1) : RowError(rows[j]) = <<>>]),
                          <<>>)
             ELSE Outcome(<<>>, [i \in DOMAIN rows |-> EmployeeOfRow(rows[i])])

\* Assignment.from_dict: TRUE when it raises ValueError (fields are not
\* stripped here).
FromDictAcceptsSelf(row) ==
    \/ EmployeeRejected(row.Employee_Name, row.Employee_EmailID)
    \/ EmployeeRejected(row.Secret_Child_Name, row.Secret_Child_EmailID)

FromDictRejected(row) ==
    \/ EmployeeRejected(row.Employee_Name, row.Employee_EmailID)
    \/ EmployeeRejected(row.Secret_Child_Name, row.Secret_Child_EmailID)
    \/ AssignmentRejected(Employee(row.Employee_Name, row.Employee_EmailID),
                          Employee(row.Secret_Child_Name, row.Secret_Child_EmailID))

FromDict(row) ==
    Assignment(Employee(row.Employee_Name, row.Employee_EmailID),
               Employee(row.Secret_Child_Name, row.Secret_Child_EmailID))

\* Assignment.to_dict
ToDict(a) ==
    [Employee_Name |-> a.employee.name, Employee_EmailID |-> a.employee.email,
     Secret_Child_Name |-> a.secret_child.name,
     Secret_Child_EmailID |-> a.secret_child.email]

\* The rows kept by the loop of read_previous_assignments, in file order.
RECURSIVE KeptRows(_)
KeptRows(rows) ==
    IF rows = <<>> THEN <<>>
    ELSE IF FromDictRejected(Head(rows)) THEN KeptRows(Tail(rows))
    ELSE << FromDict(Head(rows)) >> \o KeptRows(Tail(rows))

\* CSVHandler.read_previous_assignments
ReadPreviousAssignments(file) ==
    IF file = NoFile
    THEN Outcome(<<>>, <<>>)
    ELSE IF ~file[1].readable
    THEN Outcome(<< Error("FileOperationError", "File I/O error") >>, <<>>)
    ELSE IF file[1].headers # {} /\ ValidateCsvHeaders(file[1].headers, assignment_fields) # <<>>
    THEN Outcome(ValidateCsvHeaders(file[1].headers, assignment_fields), <<>>)
    ELSE Outcome(<<>>, KeptRows(file[1].rows))

\* ============================================ the application and its inputs
\* Participants with a shared contact, a shared name, a malformed contact.
EmailTwin == Employee(<<"C", "h">>, <<"A", "@", "X", ".", "C", "O">>)
NameTwin == Employee(<<"A", "L">>, <<"c", "@", "x", ".", "c", "o">>)
BadMail == Employee(<<"D", "i">>, <<"d", "@", "x">>)

EmployeeRow(n, e) == [Employee_Name |-> n, Employee_EmailID |-> e]

RowOf(e) == EmployeeRow(e.name, e.email)

PaddedRow == EmployeeRow(<<" ", "A", "L">>, <<"A", "@", "X", ".", "C", "O", " ">>)

BlankNameRow == EmployeeRow(<<" ">>, <<"d", "@", "x", ".", "c", "o">>)

RawEmployeeRows ==
    {RowOf(Alice), RowOf(Bob), PaddedRow, RowOf(EmailTwin), RowOf(NameTwin),
     RowOf(BadMail), BlankNameRow}

RowsOf(roster) == [i \in DOMAIN roster |-> RowOf(roster[i])]

\* Roster files: missing, unreadable, wrong header, empty, and every list of
\* rows within the bound, three distinct participants, the documented round.
EmployeeFiles ==
    {NoFile, File(FALSE, employee_fields, <<>>),
     File(TRUE, {"Employee_Name"}, <<>>), File(TRUE, {}, <<>>)}
    \cup {File(TRUE, employee_fields, rows) :
             rows \in SeqsUpTo(RawEmployeeRows, MaxRoster)
                      \cup {RowsOf(TrioRoster), RowsOf(ScenarioRoster)}}

PriorRow(gn, ge, cn, ce) ==
    [Employee_Name |-> gn, Employee_EmailID |-> ge,
     Secret_Child_Name |-> cn, Secret_Child_EmailID |-> ce]

\* Prior rows: a good one, giver equal to recipient up to letter case, a blank
\* giver name, an empty recipient contact.
SelfRow == PriorRow(Alice.name, Alice.email, ALICE.name, ALICE.email)

BlankGiverRow == PriorRow(<<" ">>, Bob.email, Alice.name, Alice.email)

EmptyContactRow == PriorRow(Bob.name, Bob.email, Alice.name, <<>>)

RawPriorRows == {ToDict(Assignment(Alice, Bob)), SelfRow, BlankGiverRow}

PriorRowsOf(records) == [i \in DOMAIN records |-> ToDict(records[i])]

PreviousFiles ==
    {NoFile, File(FALSE, assignment_fields, <<>>),
     File(TRUE, employee_fields, <<>>), File(TRUE, {}, <<>>)}
    \cup {File(TRUE, assignment_fields, rows) :
             rows \in SeqsUpTo(RawPriorRows, MaxPrior) \cup {PriorRowsOf(ScenarioPrior)}}

\* The settings an application run starts with.
AppConfigs ==
    {[min_employees |-> DefaultMinEmployees, max_assignment_attempts |-> 0],
     [min_employees |-> DefaultMinEmployees, max_assignment_attempts |-> 1],
     [min_employees |-> DefaultMinEmployees + 1, max_assignment_attempts |-> 1]}

\* SecretSantaApplication.__init__ has run; run has not started.
AppInit ==
    /\ config \in AppConfigs
    /\ EngineInit
    /\ app_pc = "start"
    /\ steps = <<>>
    /\ employees_file = <<>>
    /\ previous_file = <<>>
    /\ output_file = <<>>
    /\ run_result = <<>>
    /\ run_raised = <<>>
    /\ LibIdle
    /\ CfgIdle

\* run: "except SecretSantaException" followed by "except Exception".
RunCatchesOnlyFileErrors(e) == Catches("FileOperationError", e)

RunCatches(e) == Catches("SecretSantaException", e) \/ Catches("Exception", e)

\* An exception reaches the handlers of run: run returns False when one of
\* them catches it.
RunFail(e) ==
    /\ app_pc' = "exit"
    /\ IF RunCatches(e)
       THEN run_result' = << FALSE >> /\ run_raised' = run_raised
       ELSE run_result' = run_result /\ run_raised' = << e >>

RunGoesOn(next) ==
    /\ app_pc' = next
    /\ UNCHANGED << run_result, run_raised >>

\* Step 1: self.csv_handler.read_employees(self.employees_file)
RunReadEmployees ==
    /\ app_pc = "start"
    /\ lib = <<>> /\ objs = <<>>
    /\ employees_file' \in EmployeeFiles
    /\ steps' = Append(steps, "read_employees")
    /\ LET out == ReadEmployees(employees_file')
       IN  IF out.raised # <<>>
           THEN RunFail(out.raised[1].class) /\ employees' = employees
           ELSE RunGoesOn("validate") /\ employees' = out.value
    /\ UNCHANGED << config, max_attempts, previous_assignments, previous_map, pc,
                    attempt, available, assignments, used_children, gi, visits,
                    scans, exc, caught, raised, result, callerVars,
                    previous_file, output_file, libVars, cfgVars >>

\* Step 2: Validator.validate_employees(employees, self.config.min_employees)
RunValidate ==
    /\ app_pc = "validate"
    /\ steps' = Append(steps, "validate_employees")
    /\ LET out == ValidateEmployees(employees, config.min_employees)
       IN  IF out # <<>>
           THEN RunFail(out[1].class)
           ELSE RunGoesOn("prior")
    /\ UNCHANGED << engineVars, employees_file, previous_file, output_file,
                    libVars, cfgVars >>

\* Step 3: self.csv_handler.read_previous_assignments(self.previous_file)
RunReadPrevious ==
    /\ app_pc = "prior"
    /\ previous_file' \in PreviousFiles
    /\ steps' = Append(steps, "read_previous_assignments")
    /\ LET out == ReadPreviousAssignments(previous_file')
       IN  IF out.raised # <<>>
           THEN RunFail(out.raised[1].class)
                /\ previous_assignments' = previous_assignments
           ELSE RunGoesOn("create") /\ previous_assignments' = out.value
    /\ UNCHANGED << config, max_attempts, employees, previous_map, pc,
                    attempt, available, assignments, used_children, gi, visits,
                    scans, exc, caught, raised, result, callerVars,
                    employees_file, output_file, libVars, cfgVars >>

\* Step 4: self.assignment_engine.create_assignments(employees,
\* previous_assignments), up to its call of strategy.generate.
RunCreateAssignments ==
    /\ app_pc = "create"
    /\ pc = "idle"
    /\ steps' = Append(steps, "create_assignments")
    /\ previous_map' = BuildMap(previous_assignments)
    /\ visits' = Zeroes(Len(employees))
    /\ scans' = Zeroes(Len(employees))
    /\ pc' = "generate"
    /\ generate_calls' = generate_calls + 1
    /\ UNCHANGED << config, max_attempts, employees, previous_assignments,
                    attempt, available, assignments, used_children, gi, exc,
                    caught, raised, result, ca_result, ca_raised,
                    app_pc, employees_file, previous_file, output_file,
                    run_result, run_raised, libVars, cfgVars >>

\* create_assignments has returned or raised inside run's try block.
RunCreateReturned ==
    /\ app_pc = "create"
    /\ pc = "returned"
    /\ IF ca_raised # <<>>
       THEN RunFail(ca_raised[1])
       ELSE RunGoesOn("write")
    /\ UNCHANGED << engineVars, steps, employees_file, previous_file,
                    output_file, libVars, cfgVars >>

\* Step 5: self.csv_handler.write_assignments(new_assignments,
\* self.output_file). The file system lets the write succeed, or raises
\* IOError before anything or after some of the rows were written.
RunWrite ==
    /\ app_pc = "write"
    /\ steps' = Append(steps, "write_assignments")
    /\ \/ /\ output_file' = File(TRUE, assignment_fields, PriorRowsOf(ca_result[1]))
          /\ app_pc' = "exit"
          /\ run_result' = << TRUE >>
          /\ run_raised' = run_raised
       \/ /\ \/ output_file' = output_file
             \/ \E k \in 0..(Len(ca_result[1]) - 1) :
                   output_file' = File(TRUE, assignment_fields,
                                       PriorRowsOf(SubSeq(ca_result[1], 1, k)))
          /\ RunFail("FileOperationError")
    /\ UNCHANGED << engineVars, employees_file, previous_file, libVars, cfgVars >>

\* ================================================== direct library calls
\* The library functions a caller (a test, another program) invokes directly,
\* each recorded in lib with its arguments and its outcome.
ValidatorStaff == {Alice, ALICE, Bob, EmailTwin, NameTwin, BadMail}

PaddedAlice == Employee(<<" ", "A", "l">>, Alice.email)

EqStaff == {Alice, ALICE, Bob, EmailTwin, NameTwin, PaddedAlice}

ObjStaff == {Alice, ALICE, Bob, Charlie}

PaddedSelfRow == PriorRow(PaddedAlice.name, PaddedAlice.email, Alice.name, Alice.email)

LibPriorRows ==
    {ToDict(Assignment(Alice, Bob)), ToDict(Assignment(ALICE, Charlie)),
     SelfRow, BlankGiverRow, EmptyContactRow, PaddedSelfRow}

LibPreviousFiles ==
    {NoFile, File(FALSE, assignment_fields, <<>>),
     File(TRUE, employee_fields, <<>>), File(TRUE, {}, <<>>)}
    \cup {File(TRUE, assignment_fields, rows) : rows \in SeqsUpTo(LibPriorRows, MaxPrior)}

Call(op, args, out) == << [op |-> op, args |-> args, out |-> out] >>

LibraryFree == app_pc = "start" /\ pc = "idle" /\ lib = <<>>

\* Validator.validate_employees(employees, min_count)
CallValidateEmployees ==
    /\ LibraryFree /\ objs = <<>>
    /\ \E roster \in SeqsUpTo(ValidatorStaff, MaxRoster) :
       \E min_count \in 0..MaxMinEmployees :
          lib' = Call("validate_employees", << roster, min_count >>,
                      ValidateEmployees(roster, min_count))
    /\ UNCHANGED << engineVars, appVars, objs, cfgVars >>

\* a == b, hash(a), hash(b) for two Employee objects
CallEmployeeEq ==
    /\ LibraryFree /\ objs = <<>>
    /\ \E a \in EqStaff : \E b \in EqStaff :
          lib' = Call("eq", << a, b >>,
                      [eq |-> EmpEq(a, b), hashes |-> << EmpHash(a), EmpHash(b) >>,
                       found |-> InSet(b, SetAdd({}, a)),
                       looked_up |-> DictGet(DictSet(<<>>, a, Charlie), b)])
    /\ UNCHANGED << engineVars, appVars, objs, cfgVars >>

\* CSVHandler.read_previous_assignments(file_path)
CallReadPrevious ==
    /\ LibraryFree /\ objs = <<>>
    /\ \E file \in LibPreviousFiles :
          lib' = Call("read_previous_assignments", << file >>,
                      ReadPreviousAssignments(file))
    /\ UNCHANGED << engineVars, appVars, objs, cfgVars >>

\* Assignment(employee=giver, secret_child=child): __post_init__ raises
\* ValueError or the new object exists.
NewAssignment ==
    /\ LibraryFree
    /\ Len(objs) < MaxObjects
    /\ \E giver \in ObjStaff : \E child \in ObjStaff :
          IF AssignmentRejected(giver, child)
          THEN /\ lib' = Call("Assignment", << giver, child >>, << "ValueError" >>)
               /\ objs' = objs
          ELSE /\ objs' = Append(objs, Assignment(giver, child))
               /\ lib' = lib
    /\ UNCHANGED << engineVars, appVars, cfgVars >>

\* Assignment is a dataclass without frozen=True: a field of a constructed
\* object can be assigned, and __post_init__ does not run again.
FieldsFrozen == FALSE

SetField ==
    /\ LibraryFree
    /\ ~FieldsFrozen
    /\ \E i \in DOMAIN objs : \E v \in ObjStaff :
          \/ objs' = [objs EXCEPT ![i].employee = v]
          \/ objs' = [objs EXCEPT ![i].secret_child = v]
    /\ UNCHANGED << engineVars, appVars, lib, cfgVars >>

AppNext ==
    \/ RunReadEmployees
    \/ RunValidate
    \/ RunReadPrevious
    \/ RunCreateAssignments
    \/ GenerateCheck
    \/ StartAttempt
    \/ Exhausted
    \/ GiverStep
    \/ AttemptReturn
    \/ Except
    \/ CreateReturn
    \/ RunCreateReturned
    \/ RunWrite
    \/ CallValidateEmployees
    \/ CallEmployeeEq
    \/ CallReadPrevious
    \/ NewAssignment
    \/ SetField

AppSpec == AppInit /\ [][AppNext]_vars

\* ===================================================== the Config singleton
\* Config._setup_defaults: the two limits among the fields it sets.
ConfigDefaults ==
    [min_employees |-> DefaultMinEmployees,
     max_assignment_attempts |-> DefaultMaxAttempts]

\* The values a caller writes into a field.
ConfigFieldValues ==
    [min_employees |-> {DefaultMinEmployees, DefaultMinEmployees + 1},
     max_assignment_attempts |-> {DefaultMaxAttempts, 1}]

\* Config.__init__: "if not Config._initialized"
NeedsSetupAlways(initialized) == TRUE

NeedsSetup(initialized) == ~initialized

\* Config.reset: the value it leaves in Config._initialized
InitializedAfterResetKept(initialized) == initialized

InitializedAfterReset(initialized) == FALSE

\* A Config object: its fields (<<>> until _setup_defaults has run on it) and
\* how often _setup_defaults has run on it.
ConfigObject(fields, setups) == [fields |-> fields, setups |-> setups]

ConfigInit ==
    /\ config = [min_employees |-> DefaultMinEmployees, max_assignment_attempts |-> 1]
    /\ EngineInit
    /\ AppIdle
    /\ LibIdle
    /\ CfgIdle

\* Config(): __new__ allocates when Config._instance is None, __init__ sets the
\* defaults when Config._initialized is False; the caller gets the reference.
ConfigCall ==
    /\ Len(cfg_refs) < MaxConfigCalls
    /\ LET fresh == cfg_instance = <<>>
           heap1 == IF fresh THEN Append(cfg_heap, ConfigObject(<<>>, 0)) ELSE cfg_heap
           self == IF fresh THEN Len(heap1) ELSE cfg_instance[1]
       IN  /\ cfg_instance' = << self >>
           /\ cfg_heap' =
                 IF NeedsSetup(cfg_initialized)
                 THEN [heap1 EXCEPT ![self] =
                          ConfigObject(<< ConfigDefaults >>, heap1[self].setups + 1)]
                 ELSE heap1
           /\ cfg_initialized' = TRUE
           /\ cfg_refs' = Append(cfg_refs, [obj |-> self, epoch |-> cfg_resets])
    /\ UNCHANGED << engineVars, appVars, libVars, cfg_resets >>

\* ref.min_employees = v or ref.max_assignment_attempts = v through a
\* reference some caller holds.
ConfigWrite ==
    /\ \E i \in DOMAIN cfg_refs :
          LET o == cfg_refs[i].obj
              old == IF cfg_heap[o].fields = <<>> THEN <<>> ELSE cfg_heap[o].fields[1]
          IN  \/ \E v \in ConfigFieldValues.min_employees :
                    cfg_heap' = [cfg_heap EXCEPT ![o].fields =
                        << [f \in (DOMAIN old) \cup {"min_employees"} |->
                               IF f = "min_employees" THEN v ELSE old[f]] >>]
              \/ \E v \in ConfigFieldValues.max_assignment_attempts :
                    cfg_heap' = [cfg_heap EXCEPT ![o].fields =
                        << [f \in (DOMAIN old) \cup {"max_assignment_attempts"} |->
                               IF f = "max_assignment_attempts" THEN v ELSE old[f]] >>]
    /\ UNCHANGED << engineVars, appVars, libVars, cfg_instance, cfg_initialized,
                    cfg_refs, cfg_resets >>

\* Config.reset()
ConfigReset ==
    /\ cfg_resets < MaxConfigCalls
    /\ cfg_instance' = <<>>
    /\ cfg_initialized' = InitializedAfterReset(cfg_initialized)
    /\ cfg_resets' = cfg_resets + 1
    /\ UNCHANGED << engineVars, appVars, libVars, cfg_heap, cfg_refs >>

ConfigNext ==
    \/ ConfigCall
    \/ ConfigWrite
    \/ ConfigReset

ConfigSpec == ConfigInit /\ [][ConfigNext]_vars

\* ================================================= repeated calls on one engine
\* A caller keeps one AssignmentEngine with its strategy, calls
\* create_assignments several times and assigns fields of the strategy's
\* Config object between the calls.
MaxCalls == 2

SessionRosters == {<< Alice >>, << Alice, Bob >>, TrioRoster}

SessionPriorLists ==
    {<<>>, << Assignment(Bob, Alice) >>,
     << Assignment(Alice, Bob), Assignment(Bob, Alice) >>,
     << Assignment(Charlie, Alice) >>,
     << Assignment(Alice, Diana), Assignment(Bob, Alice) >>}

SessionConfigs ==
    [min_employees : DefaultMinEmployees..(DefaultMinEmployees + 1),
     max_assignment_attempts : 0..MaxAttempts]

\* The engine was constructed over a Config with the default minimum and a
\* positive attempt cap.
SessionInit ==
    /\ config \in {c \in SessionConfigs :
                      /\ c.min_employees = DefaultMinEmployees
                      /\ c.max_assignment_attempts >= 1}
    /\ EngineInit
    /\ AppIdle
    /\ LibIdle
    /\ CfgIdle

\* create_assignments is called: new frames, new locals, a new dict.
SessionCall ==
    /\ pc = "idle"
    /\ generate_calls < MaxCalls
    /\ employees' \in SessionRosters
    /\ previous_assignments' \in SessionPriorLists
    /\ previous_map' = BuildMap(previous_assignments')
    /\ visits' = Zeroes(Len(employees'))
    /\ scans' = Zeroes(Len(employees'))
    /\ attempt' = 0
    /\ available' = <<>>
    /\ assignments' = <<>>
    /\ used_children' = {}
    /\ gi' = 0
    /\ exc' = <<>>
    /\ caught' = 0
    /\ raised' = <<>>
    /\ result' = <<>>
    /\ pc' = "generate"
    /\ generate_calls' = generate_calls + 1
    /\ UNCHANGED << config, max_attempts, ca_result, ca_raised, others >>

\* The caller has the outcome of the call and goes on.
SessionReturn ==
    /\ pc = "returned"
    /\ pc' = "idle"
    /\ UNCHANGED << config, max_attempts, employees, previous_assignments,
                    previous_map, attempt, available, assignments, used_children,
                    gi, visits, scans, exc, caught, raised, result,
                    callerVars, others >>

\* config.min_employees = v or config.max_assignment_attempts = v, between
\* two calls.
SetConfigField ==
    /\ pc = "idle"
    /\ \/ \E v \in {c.min_employees : c \in SessionConfigs} :
             /\ v # config.min_employees
             /\ config' = [config EXCEPT !.min_employees = v]
       \/ \E v \in {c.max_assignment_attempts : c \in SessionConfigs} :
             /\ v # config.max_assignment_attempts
             /\ config' = [config EXCEPT !.max_assignment_attempts = v]
    /\ UNCHANGED << max_attempts, employees, previous_assignments,
                    previous_map, pc, attempt, available, assignments,
                    used_children, gi, visits, scans, exc, caught, raised,
                    result, callerVars, others >>

SessionNext ==
    \/ SessionCall
    \/ SetConfigField
    \/ GenerateCheck
    \/ StartAttempt
    \/ Exhausted
    \/ GiverStep
    \/ AttemptReturn
    \/ Except
    \/ CreateReturn
    \/ SessionReturn

SessionSpec == SessionInit /\ [][SessionNext]_vars

\* ===================================================== one engine, fixed limits
\* The engine constructed over a Config with the default minimum and a cap of
\* two attempts; one call of create_assignments.
AttemptInit ==
    /\ Init
    /\ config = [min_employees |-> DefaultMinEmployees, max_assignment_attempts |-> 2]

AttemptSpec == AttemptInit /\ [][Next]_vars

\* ================================================================== claims
\* The same participant: name and contact agree once lower-cased.
Same(a, b) == Lower(a.name) = Lower(b.name) /\ Lower(a.email) = Lower(b.email)

\* generate has returned or raised.
GenerateDone == pc \in {"done", "returned"}

Returned == GenerateDone /\ result # <<>>

Failed(e) == GenerateDone /\ raised = <<e>>

\* C1: whenever generate returns a list, the list has |roster| entries and
\* every roster member is the giver of exactly one entry and the recipient of
\* exactly one entry.
C1_Bijection ==
    Returned =>
        LET r == result[1]
        IN  /\ Len(r) = Len(employees)
            /\ \A k \in DOMAIN employees :
                  /\ Cardinality({i \in DOMAIN r : Same(r[i].employee, employees[k])}) = 1
                  /\ Cardinality({i \in DOMAIN r : Same(r[i].secret_child, employees[k])}) = 1

C1_Witness ==
    /\ Returned
    /\ Len(result[1]) = 3
    /\ caught > 0

\* C2: whenever generate returns a list, no returned pair gives a giver the
\* recipient that the forbidden map holds for that giver.
C2_NoOverlap ==
    Returned =>
        \A i \in DOMAIN result[1] : \A j \in DOMAIN previous_map :
            Same(previous_map[j][1], result[1][i].employee)
                => ~Same(result[1][i].secret_child, previous_map[j][2])

C2_Witness ==
    /\ Returned
    /\ Len(result[1]) >= 3
    /\ \A i \in DOMAIN result[1] :
           i <= 2 => \E j \in DOMAIN previous_map :
                        /\ Same(previous_map[j][1], result[1][i].employee)
                        /\ \E k \in DOMAIN employees : Same(previous_map[j][2], employees[k])

\* C3: whenever generate returns a list, no returned pair has a giver who is
\* also its recipient.
C3_NoSelf ==
    Returned =>
        \A i \in DOMAIN result[1] :
            ~Same(result[1][i].employee, result[1][i].secret_child)

C3_Witness ==
    /\ Returned
    /\ Len(result[1]) = 2
    /\ previous_map = <<>>

\* C4: a roster smaller than the configured minimum never gets an attempt or
\* a shuffle, and the call ends with InsufficientEmployeesError whatever the
\* forbidden map is.
C4_TooFewNeverAttempts ==
    (pc # "idle" /\ Len(employees) < config.min_employees) =>
        /\ pc \in {"generate", "done", "returned"}
        /\ attempt = 0
        /\ available = <<>> /\ assignments = <<>> /\ used_children = {}
        /\ \A i \in DOMAIN employees : visits[i] = 0 /\ scans[i] = 0
        /\ GenerateDone => raised = <<"InsufficientEmployeesError">> /\ result = <<>>

C4_Witness ==
    /\ Failed("InsufficientEmployeesError")
    /\ Len(employees) = 1
    /\ config.min_employees = DefaultMinEmployees
    /\ previous_map # <<>>
\* A valid assignment set exists: the roster has no participant twice and some
\* reordering of it gives every giver a recipient that is neither the giver
\* nor the giver's forbidden recipient.
NoDuplicates(roster) ==
    \A i, j \in DOMAIN roster : Same(roster[i], roster[j]) => i = j

Allowed(giver, child, forbidden) ==
    /\ ~Same(giver, child)
    /\ \A j \in DOMAIN forbidden :
          Same(forbidden[j][1], giver) => ~Same(child, forbidden[j][2])

SolutionExists(roster, forbidden) ==
    /\ NoDuplicates(roster)
    /\ \E perm \in Shuffles(roster) :
          \A k \in DOMAIN roster : Allowed(roster[k], perm[k], forbidden)

AtLeastZero(n) == IF n < 0 THEN 0 ELSE n

Unsolvable ==
    /\ pc # "idle"
    /\ Len(employees) >= config.min_employees
    /\ ~SolutionExists(employees, previous_map)

\* C5 (as amended): when the roster has at least the minimum size and no valid
\* assignment set exists, generate never returns a list, every attempt it makes
\* fails, and it ends with NoValidAssignmentError after exactly max_attempts
\* attempts when max_attempts >= 0 and after none when max_attempts is negative.
C5_Exhaustion ==
    \/ /\ result = <<>>
       /\ pc \in {"loop", "done", "returned"} => caught = attempt
       /\ pc \in {"giver", "except"} => caught = attempt - 1
       /\ GenerateDone =>
             /\ raised = <<"NoValidAssignmentError">>
             /\ attempt = AtLeastZero(max_attempts)
    \/ ~Unsolvable

\* C5 as stated: the number of attempts is max_attempts itself.
C5_Original ==
    (Unsolvable /\ GenerateDone) =>
        /\ raised = <<"NoValidAssignmentError">>
        /\ result = <<>>
        /\ attempt = max_attempts
        /\ caught = attempt

C5_Witness ==
    /\ Unsolvable
    /\ Failed("NoValidAssignmentError")
    /\ Len(employees) = 2
    /\ NoDuplicates(employees)
    /\ attempt = 2
    /\ caught = 2

OneOutcome ==
    LET ok == result # <<>>
        few == raised = <<"InsufficientEmployeesError">>
        none == raised = <<"NoValidAssignmentError">>
    IN  /\ ok \/ few \/ none
        /\ ~(ok /\ few) /\ ~(ok /\ none) /\ ~(few /\ none)
        /\ ok => raised = <<>>

C6_Bounded ==
    /\ attempt <= AtLeastZero(max_attempts)
    /\ gi <= Len(employees) + 1
    /\ \A i \in DOMAIN employees : visits[i] <= 1 /\ scans[i] <= 1
    /\ Len(assignments) <= Len(employees)
    /\ GenerateDone => OneOutcome

\* C6 (as amended): every call of generate terminates; it runs at most
\* max_attempts attempts (none when max_attempts is negative), an attempt visits
\* each giver at most once and scans the pool at most once per giver, and the
\* call ends in exactly one of a returned list, InsufficientEmployeesError and
\* NoValidAssignmentError.
C6_Terminates == []C6_Bounded /\ <>(GenerateDone)

\* C6 as stated: a finished call has made at most max_attempts attempts.
C6_Original ==
    GenerateDone =>
        /\ attempt <= max_attempts
        /\ \A i \in DOMAIN employees : visits[i] <= 1 /\ scans[i] <= 1
        /\ OneOutcome

C6_Witness ==
    /\ GenerateDone
    /\ attempt = 2
    /\ Len(employees) = 3
    /\ result # <<>>
    /\ \A i \in DOMAIN employees : visits[i] = 1 /\ scans[i] = 1

C7_Swallowed ==
    exc = <<"AssignmentError">> =>
        /\ pc' = "loop"
        /\ caught' = caught + 1
        /\ exc' = <<>>
        /\ raised' = <<>> /\ result' = <<>>

C7_OnlyTwoFailures ==
    /\ raised \in {<<>>, <<"InsufficientEmployeesError">>, <<"NoValidAssignmentError">>}
    /\ exc # <<>> => pc = "except" /\ exc = <<"AssignmentError">>

\* C7: the AssignmentError of a failed attempt never leaves generate: each one
\* is caught and the loop goes on to its next iteration, and the only failures
\* that leave generate are InsufficientEmployeesError and NoValidAssignmentError.
C7_AttemptFailuresLocal == []C7_OnlyTwoFailures /\ [][C7_Swallowed]_vars

C7_Witness ==
    /\ pc = "giver"
    /\ attempt = 2
    /\ caught = 1
    /\ gi = 2

TwoDistinctNoPrior ==
    /\ pc # "idle"
    /\ Len(employees) = 2
    /\ ~Same(employees[1], employees[2])
    /\ previous_assignments = <<>>
    /\ previous_map = <<>>

Scenario ==
    /\ pc # "idle"
    /\ employees = ScenarioRoster
    /\ previous_assignments = ScenarioPrior

RecipientOf(r, giver) == r[CHOOSE i \in DOMAIN r : Same(r[i].employee, giver)].secret_child

ScenarioResultOk(r) ==
    /\ Len(r) = 4
    /\ \A e \in {Alice, Bob, Charlie, Diana} :
          /\ Cardinality({i \in DOMAIN r : Same(r[i].employee, e)}) = 1
          /\ Cardinality({i \in DOMAIN r : Same(r[i].secret_child, e)}) = 1
    /\ \A i \in DOMAIN r : ~Same(r[i].employee, r[i].secret_child)
    /\ ~Same(RecipientOf(r, Alice), Bob)
    /\ ~Same(RecipientOf(r, Bob), Charlie)
    /\ ~Same(RecipientOf(r, Charlie), Diana)
    /\ ~Same(RecipientOf(r, Diana), Alice)

PersonKey(e) == << Lower(e.name), Lower(e.email) >>

GiverRecords(giver) ==
    {k \in DOMAIN previous_assignments : Same(previous_assignments[k].employee, giver)}

LastOf(S) == CHOOSE k \in S : \A m \in S : m <= k

\* C10: the forbidden map create_assignments hands to generate has exactly one
\* entry per distinct giver of the prior records (distinct up to letter case),
\* and the entry of a giver holds the recipient of the last prior record of
\* that giver.
C10_ForbiddenMap ==
    pc # "idle" =>
        LET giverKey == [k \in DOMAIN previous_assignments |->
                            PersonKey(previous_assignments[k].employee)]
            mapKey == [j \in DOMAIN previous_map |-> PersonKey(previous_map[j][1])]
        IN  /\ \A i, j \in DOMAIN mapKey : mapKey[i] = mapKey[j] => i = j
            /\ \A k \in DOMAIN giverKey : \E j \in DOMAIN mapKey : mapKey[j] = giverKey[k]
            /\ \A j \in DOMAIN mapKey :
                  LET records == {k \in DOMAIN giverKey : giverKey[k] = mapKey[j]}
                  IN  /\ records # {}
                      /\ previous_map[j][2] =
                            previous_assignments[LastOf(records)].secret_child
            /\ Len(previous_map) = Cardinality({giverKey[k] : k \in DOMAIN giverKey})

C10_Witness ==
    /\ pc = "generate"
    /\ Len(previous_assignments) = 2
    /\ Len(previous_map) = 1
    /\ previous_assignments[1].employee # previous_assignments[2].employee
    /\ previous_assignments[1].secret_child # previous_assignments[2].secret_child

\* C11: create_assignments calls generate exactly once, returns the list
\* generate returned unchanged, fails only with the failure generate raised
\* (InsufficientEmployeesError or NoValidAssignmentError), and has no outcome
\* before generate has finished.
C11_PassThrough ==
    /\ generate_calls = (IF pc = "idle" THEN 0 ELSE 1)
    /\ pc # "returned" => ca_result = <<>> /\ ca_raised = <<>>
    /\ pc = "returned" =>
          /\ ca_result = result
          /\ ca_raised = raised
          /\ (ca_result = <<>>) # (ca_raised = <<>>)
          /\ ca_raised \in {<<>>, <<"InsufficientEmployeesError">>,
                             <<"NoValidAssignmentError">>}

C11_Witness ==
    /\ pc = "returned"
    /\ ca_raised = <<"NoValidAssignmentError">>
    /\ Len(previous_assignments) = 2
    /\ Len(previous_map) = 1
    /\ attempt >= 1

\* The recipients already taken by the first k - 1 pairs of a list.
TakenBefore(r, k) == {r[m].secret_child : m \in 1..(k - 1)}

\* A pool element the k-th giver may still receive, stated on the inputs.
Candidate(c, giver, r, k) ==
    /\ \A u \in TakenBefore(r, k) : ~Same(u, c)
    /\ ~Same(c, giver)
    /\ \A j \in DOMAIN previous_map :
          Same(previous_map[j][1], giver) => ~Same(c, previous_map[j][2])

\* C19: in every attempt the k-th pair chosen has the k-th roster member as
\* giver and, as recipient, the first element of the shuffled pool that is
\* not a recipient of an earlier pair of the attempt, is not the giver and is
\* not the giver's forbidden recipient; the pairs are thus determined by the
\* roster, the forbidden map and the pool.
C19_FirstFit ==
    LET pool == [i \in DOMAIN available |-> PersonKey(available[i])]
        taken == [k \in DOMAIN assignments |-> PersonKey(assignments[k].secret_child)]
        giver == [k \in DOMAIN employees |-> PersonKey(employees[k])]
        barred(k) == {PersonKey(previous_map[j][2]) :
                         j \in {m \in DOMAIN previous_map :
                                  PersonKey(previous_map[m][1]) = giver[k]}}
        open(i, k) == /\ \A m \in 1..(k - 1) : taken[m] # pool[i]
                      /\ pool[i] # giver[k]
                      /\ pool[i] \notin barred(k)
    IN  /\ Len(assignments) <= Len(employees)
        /\ pc = "giver" => Len(assignments) = gi - 1
        /\ \A k \in DOMAIN assignments :
              /\ assignments[k].employee = employees[k]
              /\ \E i \in DOMAIN pool :
                    /\ open(i, k)
                    /\ \A j \in 1..(i - 1) : ~open(j, k)
                    /\ assignments[k].secret_child = available[i]
        /\ Returned => result[1] = assignments

C19_Witness ==
    /\ Returned
    /\ Len(result[1]) = 4
    /\ previous_map # <<>>
    /\ result[1][1].secret_child # available[1]
    /\ result[1][1].secret_child # available[2]

\* The giver now being processed has no candidate left in the pool.
NoCandidateLeft ==
    /\ pc = "giver"
    /\ gi <= Len(employees)
    /\ \A i \in DOMAIN available :
          ~Candidate(available[i], employees[gi], assignments, gi)

C20_FailsAtOnce ==
    NoCandidateLeft =>
        /\ pc' = "except"
        /\ exc' = <<"AssignmentError">>
        /\ assignments' = assignments
        /\ used_children' = used_children
        /\ gi' = gi

C20_NeverRevised ==
    (pc = "giver" /\ pc' = "giver") =>
        /\ Len(assignments') = Len(assignments) + 1
        /\ SubSeq(assignments', 1, Len(assignments)) = assignments

\* C20: an attempt fails at the first giver that has no candidate left, with
\* the pairs chosen before it left as they were, and a pair once chosen in an
\* attempt is never revised. (That all attempts can fail although a valid
\* assignment set exists is the state C20_Witness.)
C20_Greedy == [][C20_FailsAtOnce /\ C20_NeverRevised]_vars

C20_Witness ==
    /\ SolutionExists(employees, previous_map)
    /\ GenerateDone
    /\ raised = <<"NoValidAssignmentError">>
    /\ attempt = max_attempts
    /\ attempt = 2
    /\ caught = 2
    /\ config.min_employees = DefaultMinEmployees

\* The same elements with the same multiplicities.
IsPermutation(a, b) ==
    /\ Len(a) = Len(b)
    /\ \A i \in DOMAIN b :
          Cardinality({j \in DOMAIN a : a[j] = b[i]}) =
             Cardinality({j \in DOMAIN b : b[j] = b[i]})

C21_AttemptState ==
    /\ pc \in {"giver", "except"} =>
          /\ IsPermutation(available, employees)
          /\ Len(assignments) = gi - 1
          /\ used_children = {assignments[k].secret_child : k \in DOMAIN assignments}
          /\ caught = attempt - 1
    /\ result # <<>> =>
          /\ GenerateDone
          /\ result[1] = assignments
          /\ Len(assignments) = Len(employees)
          /\ caught = attempt - 1

C21_AttemptStep ==
    /\ attempt' # attempt =>
          /\ attempt' = attempt + 1
          /\ result = <<>>
          /\ assignments' = <<>>
          /\ used_children' = {}
          /\ gi' = 1
          /\ IsPermutation(available', employees)
    /\ result # <<>> =>
          UNCHANGED << attempt, available, assignments, used_children, gi, result >>

\* C21: every attempt starts with an empty used-recipient set, an empty list
\* of pairs and a pool that is a reordering of the whole roster; during an
\* attempt the used recipients are exactly the recipients of the pairs chosen
\* in that attempt; the list returned is the list of pairs of the attempt that
\* succeeded, every attempt before it having failed; and no attempt starts
\* once a list has been returned.
C21_FreshAttempts == []C21_AttemptState /\ [][C21_AttemptStep]_vars

C21_Witness ==
    /\ Returned
    /\ attempt = 2
    /\ caught = 1
    /\ Len(result[1]) = 3
    /\ Cardinality(used_children) = 3
    /\ previous_map # <<>>

C22_CallStart ==
    pc = "generate" =>
        /\ attempt = 0 /\ caught = 0 /\ gi = 0
        /\ available = <<>> /\ assignments = <<>> /\ used_children = {}
        /\ exc = <<>> /\ raised = <<>> /\ result = <<>>
        /\ \A i \in DOMAIN employees : visits[i] = 0 /\ scans[i] = 0

C22_FrameStep ==
    /\ pc # "idle" =>
          UNCHANGED << employees, previous_assignments, previous_map,
                       config, max_attempts >>
    /\ (pc = "idle" /\ pc' # "idle") => UNCHANGED << config, max_attempts >>

\* C22: from the call of create_assignments to its return or failure no step
\* changes the caller's roster (order included), the prior-record list, the
\* forbidden map, the Config fields or the strategy's attempt cap, whether the
\* call succeeds or fails; and every call of generate, the first or a later
\* one, starts with no attempt made, nothing caught and empty locals, so what
\* a call can do is fixed by its inputs and the configuration alone.
C22_InputsAndStateKept == []C22_CallStart /\ [][C22_FrameStep]_vars

C22_Witness ==
    /\ generate_calls = 2
    /\ pc = "returned"
    /\ employees = TrioRoster
    /\ available # employees
    /\ caught = 1
    /\ ca_result # <<>>
    /\ ca_result = result
    /\ previous_map # <<>>

C25_Constructed == max_attempts = config.max_assignment_attempts

C25_LimitsInUse ==
    /\ attempt <= AtLeastZero(max_attempts)
    /\ Failed("NoValidAssignmentError") => attempt = AtLeastZero(max_attempts)
    /\ pc \in {"loop", "giver", "except"} =>
          raised = <<>> /\ Len(employees) >= config.min_employees
    /\ GenerateDone =>
          (raised = <<"InsufficientEmployeesError">>
              <=> Len(employees) < config.min_employees)

C25_CapNeverReread == max_attempts' = max_attempts

\* C25: the attempt cap of the strategy is the max_assignment_attempts of its
\* Config at construction and never changes afterwards, whatever is assigned
\* to the Config later, and it alone bounds the attempts of every call; the
\* roster-size check of each call compares with the min_employees the Config
\* holds at that call.
C25_LimitsReadTimes ==
    C25_Constructed /\ []C25_LimitsInUse /\ [][C25_CapNeverReread]_vars

C25_Witness ==
    /\ generate_calls = 2
    /\ Failed("NoValidAssignmentError")
    /\ attempt = 2
    /\ max_attempts = 2
    /\ config.max_assignment_attempts = 0
    /\ config.min_employees = DefaultMinEmployees + 1
    /\ Len(employees) = 3
    /\ ca_raised = <<"InsufficientEmployeesError">>

\* Every list that pairs each roster member, in roster order, with a roster
\* member such that no member is paired twice as recipient, nobody is paired
\* with themselves and no pair is a forbidden one.
Solutions(roster, forbidden) ==
    LET n == Len(roster)
        valid == {p \in [1..n -> 1..n] :
                    /\ \A i, j \in 1..n : p[i] = p[j] => i = j
                    /\ \A k \in 1..n : Allowed(roster[k], roster[p[k]], forbidden)}
    IN  {[k \in 1..n |-> Assignment(roster[k], roster[p[k]])] : p \in valid}

\* The recipients of a list, in the order of its pairs.
RecipientsOf(r) == [k \in DOMAIN r |-> r[k].secret_child]

\* The lists one attempt can return, over all the pools the shuffle can give.
AttemptCanReturn(roster, forbidden) ==
    {out.value[1] :
        out \in {o \in {AttemptAssignment(roster, forbidden, pool) :
                            pool \in Shuffles(roster)} : o.value # <<>>}}

C23_Reachable ==
    (pc = "generate" /\ NoDuplicates(employees)) =>
        /\ \A sol \in Solutions(employees, previous_map) :
              /\ RecipientsOf(sol) \in Shuffles(employees)
              /\ AttemptAssignment(employees, previous_map, RecipientsOf(sol))
                    = [raised |-> <<>>, value |-> << sol >>]
        /\ AttemptCanReturn(employees, previous_map) = Solutions(employees, previous_map)

C23_Returned ==
    /\ pc = "except" =>
          AttemptAssignment(employees, previous_map, available).raised = exc
    /\ Returned =>
          /\ AttemptAssignment(employees, previous_map, available)
                = [raised |-> <<>>, value |-> result]
          /\ NoDuplicates(employees) => result[1] \in Solutions(employees, previous_map)

\* C23: for every duplicate-free roster and forbidden map, each valid
\* assignment set (in roster order) is returned by a single attempt whose pool
\* lists its recipients in giver order, a pool the shuffle can produce; the
\* lists an attempt can return over all pools are exactly the valid assignment
\* sets; and what an attempt of generate does is what that function of roster,
\* forbidden map and pool gives.
C23_EverySolutionReachable == C23_Reachable /\ C23_Returned

C23_Witness ==
    /\ Returned
    /\ Len(employees) = 4
    /\ previous_map # <<>>
    /\ attempt = 2
    /\ available = RecipientsOf(result[1])
    /\ Cardinality(Solutions(employees, previous_map)) >= 2

\* The roster is large enough and holds some participant twice.
RepeatedParticipant ==
    /\ pc # "idle"
    /\ Len(employees) >= config.min_employees
    /\ ~NoDuplicates(employees)

NoRepeat(r) ==
    \A i, j \in DOMAIN r :
        (Same(r[i].employee, r[j].employee)
            \/ Same(r[i].secret_child, r[j].secret_child)) => i = j

\* C24 (as amended): when the roster has at least the minimum size and holds
\* the same participant twice (ignoring letter case), no attempt gets past its
\* last giver, whatever the pool and the forbidden map, every attempt made is
\* caught, and generate ends with NoValidAssignmentError after max_attempts
\* attempts, or after none when max_attempts is negative; and no list generate
\* ever returns has a repeated giver or a repeated recipient.
C24_RepeatedParticipant ==
    /\ result # <<>> => NoRepeat(result[1])
    /\ \/ /\ result = <<>>
          /\ pc = "giver" => gi <= Len(employees)
          /\ pc \in {"loop", "done", "returned"} => caught = attempt
          /\ GenerateDone =>
                /\ raised = <<"NoValidAssignmentError">>
                /\ attempt = AtLeastZero(max_attempts)
       \/ ~RepeatedParticipant

\* C24 as stated: the call ends after max_attempts attempts.
C24_Original ==
    (GenerateDone /\ RepeatedParticipant) =>
        /\ raised = <<"NoValidAssignmentError">>
        /\ result = <<>>
        /\ attempt = max_attempts

C24_Witness ==
    /\ RepeatedParticipant
    /\ Failed("NoValidAssignmentError")
    /\ employees[1] # employees[2]
    /\ previous_map # <<>>
    /\ attempt = 2
    /\ caught = 2
    /\ available = << employees[2], employees[1] >>

IsMember(e, roster) == \E i \in DOMAIN roster : Same(roster[i], e)

\* The entries of a forbidden map whose giver and recipient are both roster
\* members, in their order.
RosterEntries(forbidden, roster) ==
    LET Inside(entry) == IsMember(entry[1], roster) /\ IsMember(entry[2], roster)
    IN  SelectSeq(forbidden, Inside)

\* C26: for every roster, forbidden map and pool, an attempt made with the
\* forbidden map gives what the attempt made with only the entries whose giver
\* and recipient are both roster members gives, the same list or the same
\* failure; so every list generate returns, and every failed attempt, is also
\* an outcome under the reduced map, and the size check and the attempt cap do
\* not read the map.
C26_OutsideEntriesIdle ==
    LET kept == RosterEntries(previous_map, employees)
    IN  /\ pc = "generate" =>
              \A pool \in Shuffles(employees) :
                  AttemptAssignment(employees, previous_map, pool)
                     = AttemptAssignment(employees, kept, pool)
        /\ pc = "except" =>
              AttemptAssignment(employees, kept, available).raised = exc
        /\ Returned =>
              AttemptAssignment(employees, kept, available)
                 = [raised |-> <<>>, value |-> result]
        /\ Failed("InsufficientEmployeesError") =>
              Len(employees) < config.min_employees
        /\ Failed("NoValidAssignmentError") =>
              attempt = AtLeastZero(max_attempts) /\ caught = attempt

C26_Witness ==
    /\ Returned
    /\ employees = << Alice, Bob >>
    /\ previous_map = << << Charlie, Alice >> >>
    /\ RosterEntries(previous_map, employees) = <<>>
    /\ result[1] = << Assignment(Alice, Bob), Assignment(Bob, Alice) >>

\* The captured cap allows no attempt and the roster passes the size check.
NoAttemptAllowed ==
    /\ pc # "idle"
    /\ max_attempts <= 0
    /\ Len(employees) >= config.min_employees

\* C27: when the attempt cap held by the strategy is zero or negative and the
\* roster has at least the minimum size, generate starts no attempt (no pool
\* is shuffled, no giver visited, nothing caught) and ends with
\* NoValidAssignmentError, also when a valid assignment set exists.
C27_ZeroCap ==
    NoAttemptAllowed =>
        /\ pc \in {"generate", "loop", "done", "returned"}
        /\ attempt = 0 /\ caught = 0 /\ exc = <<>>
        /\ available = <<>> /\ assignments = <<>> /\ used_children = {}
        /\ \A i \in DOMAIN employees : visits[i] = 0 /\ scans[i] = 0
        /\ result = <<>>
        /\ GenerateDone => raised = <<"NoValidAssignmentError">>

C27_Witness ==
    /\ NoAttemptAllowed
    /\ Failed("NoValidAssignmentError")
    /\ max_attempts = 0
    /\ employees = << Alice, Bob >>
    /\ previous_map = <<>>
    /\ SolutionExists(employees, previous_map)
    /\ attempt = 0
    /\ pc = "returned"
    /\ ca_raised = <<"NoValidAssignmentError">>

RunOrder ==
    << "read_employees", "validate_employees", "read_previous_assignments",
       "create_assignments", "write_assignments" >>

\* C12: run calls its collaborators in the order read roster, validate, read
\* prior records, create_assignments, write; no exception leaves run; a run
\* that ended before the write step returned False and wrote nothing, and the
\* write step is reached only after create_assignments returned a list.
C12_RunOrder ==
    /\ Len(steps) <= Len(RunOrder)
    /\ steps = SubSeq(RunOrder, 1, Len(steps))
    /\ run_raised = <<>>
    /\ app_pc = "exit" => run_result # <<>>
    /\ app_pc # "exit" => run_result = <<>>
    /\ Len(steps) < Len(RunOrder) =>
          /\ output_file = <<>>
          /\ run_result # << TRUE >>
    /\ Len(steps) = Len(RunOrder) =>
          /\ pc = "returned"
          /\ ca_raised = <<>> /\ ca_result # <<>> /\ raised = <<>>
    /\ (raised # <<>> /\ app_pc = "exit") =>
          /\ run_result = << FALSE >>
          /\ Len(steps) = 4

C12_Witness ==
    /\ app_pc = "exit"
    /\ raised = << "NoValidAssignmentError" >>
    /\ attempt = 1
    /\ run_result = << FALSE >>
    /\ output_file = <<>>
    /\ Len(employees) = 4

SharedContact(roster) ==
    \E i, j \in DOMAIN roster : i # j /\ Lower(roster[i].email) = Lower(roster[j].email)

\* C13: validate_employees raises ValidationError for every roster in which
\* two entries have the same contact ignoring letter case, and in a run no
\* such roster gets past validation to create_assignments.
C13_DuplicateContact ==
    /\ (lib # <<>> /\ lib[1].op = "validate_employees"
          /\ SharedContact(lib[1].args[1])) =>
             /\ lib[1].out # <<>>
             /\ lib[1].out[1].class = "ValidationError"
    /\ (app_pc \in {"prior", "create", "write"} \/ generate_calls > 0) =>
          ~SharedContact(employees)

C13_Witness ==
    /\ lib # <<>>
    /\ lib[1].op = "validate_employees"
    /\ lib[1].args[1] = << Alice, EmailTwin >>
    /\ lib[1].out = << Error("ValidationError", "Duplicate email found") >>

SharedName(roster) ==
    \E i, j \in DOMAIN roster : i # j /\ Lower(roster[i].name) = Lower(roster[j].name)

\* C14 (as stated): validate_employees raises ValidationError for every roster
\* in which two entries have the same name ignoring letter case, and the error
\* reports a duplicate name when the roster has no other defect.
C14_DuplicateName ==
    (lib # <<>> /\ lib[1].op = "validate_employees" /\ SharedName(lib[1].args[1])) =>
        /\ lib[1].out # <<>>
        /\ lib[1].out[1].class = "ValidationError"
        /\ (/\ Len(lib[1].args[1]) >= lib[1].args[2]
            /\ ~SharedContact(lib[1].args[1])
            /\ \A i \in DOMAIN lib[1].args[1] :
                  ValidateEmployee(lib[1].args[1][i]) = <<>>)
              => lib[1].out[1].message = "Duplicate name found"

\* A field with a character other than a blank.
NotBlank(field) == \E i \in DOMAIN field : field[i] # " "

GoodRow(row) ==
    /\ NotBlank(row.Employee_Name) /\ NotBlank(row.Employee_EmailID)
    /\ NotBlank(row.Secret_Child_Name) /\ NotBlank(row.Secret_Child_EmailID)
    /\ ~Same(Employee(row.Employee_Name, row.Employee_EmailID),
             Employee(row.Secret_Child_Name, row.Secret_Child_EmailID))

GoodRecord(a) ==
    /\ NotBlank(a.employee.name) /\ NotBlank(a.employee.email)
    /\ NotBlank(a.secret_child.name) /\ NotBlank(a.secret_child.email)
    /\ ~Same(a.employee, a.secret_child)

\* The position in rows of the k-th good row.
NthGood(rows, k) ==
    CHOOSE i \in DOMAIN rows :
        /\ GoodRow(rows[i])
        /\ Cardinality({j \in 1..i : GoodRow(rows[j])}) = k

\* C15: read_previous_assignments applied to a readable file with the right
\* header never raises; it returns the rows that have four non-blank fields
\* and giver different from recipient, in file order, as Assignments; a
\* missing file gives the empty list; and in a run every record handed to
\* create_assignments has non-blank fields and giver different from recipient.
C15_BadRecordsSkipped ==
    /\ (lib # <<>> /\ lib[1].op = "read_previous_assignments") =>
          LET file == lib[1].args[1]
              out == lib[1].out
          IN  /\ file = NoFile => out = Outcome(<<>>, <<>>)
              /\ (file # NoFile /\ file[1].readable
                    /\ file[1].headers = assignment_fields) =>
                    LET rows == file[1].rows
                    IN  /\ out.raised = <<>>
                        /\ Len(out.value) =
                              Cardinality({i \in DOMAIN rows : GoodRow(rows[i])})
                        /\ \A k \in DOMAIN out.value :
                              /\ ToDict(out.value[k]) = rows[NthGood(rows, k)]
                              /\ GoodRecord(out.value[k])
    /\ generate_calls > 0 =>
          \A k \in DOMAIN previous_assignments : GoodRecord(previous_assignments[k])

C15_Witness ==
    /\ lib # <<>>
    /\ lib[1].op = "read_previous_assignments"
    /\ lib[1].args[1] # NoFile
    /\ lib[1].args[1][1].rows = << SelfRow, ToDict(Assignment(Alice, Bob)) >>
    /\ lib[1].out = Outcome(<<>>, << Assignment(Alice, Bob) >>)

\* Two characters that are the same letter in either case.
CasePairs ==
    {<<"a", "A">>, <<"b", "B">>, <<"c", "C">>, <<"d", "D">>, <<"h", "H">>,
     <<"i", "I">>, <<"l", "L">>, <<"o", "O">>, <<"x", "X">>}

SameLetter(c, d) == c = d \/ <<c, d>> \in CasePairs \/ <<d, c>> \in CasePairs

MatchIgnoringCase(s, t) ==
    Len(s) = Len(t) /\ \A i \in DOMAIN s : SameLetter(s[i], t[i])

\* C17: two participants are equal exactly when name and contact both match
\* ignoring letter case; equal participants have equal hashes, are found in a
\* set holding the other and found as the other's key in a dict, unequal ones
\* are not; and no list generate returns in a run gives a giver the recipient
\* a prior record holds for that giver under another letter case.
C17_EqualityAndHash ==
    /\ (lib # <<>> /\ lib[1].op = "eq") =>
          LET a == lib[1].args[1]
              b == lib[1].args[2]
              out == lib[1].out
          IN  /\ out.eq <=> (MatchIgnoringCase(a.name, b.name)
                               /\ MatchIgnoringCase(a.email, b.email))
              /\ out.eq => out.hashes[1] = out.hashes[2]
              /\ out.found <=> out.eq
              /\ out.looked_up = (IF out.eq THEN << Charlie >> ELSE <<>>)
    /\ result # <<>> =>
          \A i \in DOMAIN result[1] : \A k \in DOMAIN previous_assignments :
              (/\ MatchIgnoringCase(previous_assignments[k].employee.name,
                                    result[1][i].employee.name)
               /\ MatchIgnoringCase(previous_assignments[k].employee.email,
                                    result[1][i].employee.email)
               /\ k = LastOf(GiverRecords(result[1][i].employee)))
                  => ~(/\ MatchIgnoringCase(previous_assignments[k].secret_child.name,
                                            result[1][i].secret_child.name)
                       /\ MatchIgnoringCase(previous_assignments[k].secret_child.email,
                                            result[1][i].secret_child.email))

C17_Witness ==
    /\ lib # <<>>
    /\ lib[1].op = "eq"
    /\ lib[1].args = << Alice, ALICE >>
    /\ lib[1].out.eq
    /\ lib[1].out.found
    /\ lib[1].out.looked_up = << Charlie >>

\* C18 (as stated): every Assignment object alive has giver different from
\* recipient, whatever was done to it since its construction.
C18_NeverSelf ==
    \A i \in DOMAIN objs : ~Same(objs[i].employee, objs[i].secret_child)

\* What a read of the two limits through the i-th reference returns.
ReadThrough(i) == cfg_heap[cfg_refs[i].obj].fields

C16_OneInstancePerEpoch ==
    /\ \A i, j \in DOMAIN cfg_refs :
          (cfg_refs[i].epoch = cfg_refs[j].epoch) <=> (cfg_refs[i].obj = cfg_refs[j].obj)
    /\ \A i, j \in DOMAIN cfg_refs :
          cfg_refs[i].epoch = cfg_refs[j].epoch => ReadThrough(i) = ReadThrough(j)
    /\ \A o \in DOMAIN cfg_heap :
          /\ cfg_heap[o].setups = 1
          /\ cfg_heap[o].fields # <<>>
          /\ DOMAIN cfg_heap[o].fields[1] = {"min_employees", "max_assignment_attempts"}

C16_CallStep ==
    Len(cfg_refs') > Len(cfg_refs) =>
        LET new == cfg_refs'[Len(cfg_refs')]
        IN  IF \E i \in DOMAIN cfg_refs : cfg_refs[i].epoch = cfg_resets
            THEN /\ cfg_heap' = cfg_heap
                 /\ \E i \in DOMAIN cfg_refs :
                       cfg_refs[i].epoch = cfg_resets /\ cfg_refs[i].obj = new.obj
            ELSE /\ \A i \in DOMAIN cfg_refs : cfg_refs[i].obj # new.obj
                 /\ cfg_heap'[new.obj].fields = << ConfigDefaults >>
                 /\ \A o \in DOMAIN cfg_heap : cfg_heap'[o] = cfg_heap[o]

\* C16: Config() calls with no reset between them return the same instance, on
\* which the defaults were set up exactly once, so every such reference reads
\* what was written through any other; a Config() call that follows a reset
\* (or is the first) returns an instance no earlier call returned, holding the
\* defaults min_employees 2 and max_assignment_attempts 1000, and leaves the
\* earlier instances as they were; any other call changes no field.
C16_Singleton == []C16_OneInstancePerEpoch /\ [][C16_CallStep]_vars

C16_Witness ==
    /\ Len(cfg_refs) = 3
    /\ cfg_resets = 1
    /\ cfg_refs[1].obj = cfg_refs[2].obj
    /\ cfg_refs[3].obj # cfg_refs[1].obj
    /\ ReadThrough(2) = << [min_employees |-> DefaultMinEmployees + 1,
                            max_assignment_attempts |-> 1] >>
    /\ ReadThrough(3) = << ConfigDefaults >>
====
